---- MODULE Spec2Model ----
(***************************************************************************)
(* The alternating training loop of main() (src/main.py) and the two       *)
(* surrogate-data augmentation routines (src/utils.py).                     *)
(*                                                                         *)
(* main() is a sequential program: pc is its position.  Tensors are        *)
(* abstracted to what the scheduling logic can observe: a parameter        *)
(* snapshot is the number of optimizer steps taken when it was flattened,  *)
(* an APL measurement is tagged with the epoch that measured it, and a     *)
(* surrogate is the number of the trainer call that returned it.           *)
(* tr.train_surrogate_model, tr.Tree_Regularizer and                       *)
(* dtu.average_path_length are calls into modules outside src/; main()     *)
(* uses their results opaquely and so does the model.                      *)
(***************************************************************************)
EXTENDS Integers, Sequences, FiniteSets, TLC

\* ------------------------------------------------------------------ bounds
MaxEp == 12
MaxSb == 5
MaxK == 3            \* existing parameter vectors handed to the augmentation
MaxNew == 2          \* requested synthetic samples
MaxDim == 2          \* length of a parameter vector
Denominator == 2     \* Dirichlet weights are multiples of 1/Denominator

\* --------------------------------------------------------------- constants
NumSamples == 500
None == 0

\* sklearn's train_test_split(test_size=0.33): n_test = ceil(0.33 * n)
TestSize == (33 * NumSamples + 99) \div 100
TrainSize == NumSamples - TestSize

\* command-line inputs
EpInputs == -1 .. MaxEp
SbInputs == -1 .. MaxSb
BatchInputs == {-1, 0, 100, 200}
RtInputs == {"<absent>", "", "False", "True"}

\* argparse type=bool applies bool() to the argument string
ParseBool(s) == s # ""
ArgRt(s) == IF s = "<absent>" THEN TRUE ELSE ParseBool(s)

\* number of mini-batches a DataLoader yields (drop_last=False)
NumBatches(n, b) == (n + b - 1) \div b

VARIABLES
    args,                            \* parsed command line: ep, batch, sb, rt
    pc,                              \* position in main()
    epoch,                           \* loop variable of `for epoch in range(num_epochs)`
    input_batch_size_surrogate_training,   \* the countdown
    input_data_surrogate_training,   \* buffered parameter snapshots
    APLs,                            \* buffered APL measurements
    training_loss,
    loss_surrogate_training,
    surrogate_model,
    surrogate_model_trained,
    running_loss,                    \* criterion calls of the current epoch
    batch_i,                         \* index of the next mini-batch of the current pass
    loss_with_train_data,
    loss_with_test_data,
    opt_steps,                       \* optimizer.step() calls so far (the primary model's version)
    kinds,                           \* history: kind of every completed epoch
    trainer_calls,                   \* history: arguments of every tr.train_surrogate_model call
    \* ---- augmentation routines (src/utils.py)
    aug_pc,
    aug_fn,
    model,                           \* parameters of the model object passed by the caller
    model_before,                    \* history: the same, at the time of the call
    parameters,                      \* argument `parameters` (dirichlet)
    num_new_samples,                 \* argument `num_new_samples` / `size`
    parameters_,                     \* samples @ parameters
    model_copy,                      \* parameters of the deep copy (gaussian), <<>> when none
    aug_i,
    parameters_new,
    APLs_new

mainvars == <<args, pc, epoch, input_batch_size_surrogate_training,
              input_data_surrogate_training, APLs, training_loss,
              loss_surrogate_training, surrogate_model, surrogate_model_trained,
              running_loss, batch_i, loss_with_train_data, loss_with_test_data,
              opt_steps, kinds, trainer_calls>>
augvars == <<aug_pc, aug_fn, model, model_before, parameters, num_new_samples,
             parameters_, model_copy, aug_i, parameters_new, APLs_new>>
vars == <<mainvars, augvars>>

\* ------------------------------------------------------------------ main()

\* lines 119-150: hyperparameters, objectives, empty buffers
MainInit ==
    /\ args \in [ep : EpInputs, batch : BatchInputs, sb : SbInputs,
                 rt : {ArgRt(s) : s \in RtInputs}]
    /\ pc = "setup"
    /\ epoch = 0
    /\ input_batch_size_surrogate_training = args.sb
    /\ input_data_surrogate_training = <<>>
    /\ APLs = <<>>
    /\ training_loss = <<>>
    /\ loss_surrogate_training = <<>>
    /\ surrogate_model = None
    /\ surrogate_model_trained = FALSE
    /\ running_loss = <<>>
    /\ batch_i = 0
    /\ loss_with_train_data = <<>>
    /\ loss_with_test_data = <<>>
    /\ opt_steps = 0
    /\ kinds = <<>>
    /\ trainer_calls = <<>>

MainIdle ==
    /\ args = [ep |-> 0, batch |-> 0, sb |-> 0, rt |-> TRUE]
    /\ pc = "idle"
    /\ epoch = 0
    /\ input_batch_size_surrogate_training = 0
    /\ input_data_surrogate_training = <<>>
    /\ APLs = <<>>
    /\ training_loss = <<>>
    /\ loss_surrogate_training = <<>>
    /\ surrogate_model = None
    /\ surrogate_model_trained = FALSE
    /\ running_loss = <<>>
    /\ batch_i = 0
    /\ loss_with_train_data = <<>>
    /\ loss_with_test_data = <<>>
    /\ opt_steps = 0
    /\ kinds = <<>>
    /\ trainer_calls = <<>>

\* lines 139-142: DataLoader(batch_size=...) raises ValueError unless batch_size > 0
DataLoaderOk(b) == b > 0

Setup ==
    /\ pc = "setup"
    /\ pc' = IF DataLoaderOk(args.batch) THEN "loop" ELSE "error"
    /\ UNCHANGED <<args, epoch, input_batch_size_surrogate_training,
                   input_data_surrogate_training, APLs, training_loss,
                   loss_surrogate_training, surrogate_model, surrogate_model_trained,
                   running_loss, batch_i, loss_with_train_data, loss_with_test_data,
                   opt_steps, kinds, trainer_calls>>

\* the loop bound off by one
LoopRunsOneMore(e, num_epochs) == e <= num_epochs

\* line 152: range(num_epochs) still has an element
LoopContinues(e, num_epochs) == e < num_epochs

\* the retrain branch entered one epoch late
IsStandardEpochLate(countdown) == countdown >= 0

\* line 156
IsStandardEpoch(countdown) == countdown > 0

\* the plain criterion kept after the surrogate exists (line 167 instead of 166)
SelectCriterionPlain(trained, surrogate) == [crit |-> "mse", surrogate |-> None]

\* lines 165-169: the criterion a standard mini-batch step invokes
SelectCriterion(trained, surrogate) ==
    IF trained THEN [crit |-> "tr", surrogate |-> surrogate]
               ELSE [crit |-> "mse", surrogate |-> None]

\* the loss evaluated with the surrogate of the previous cycle
CriterionTrStale(surrogate) ==
    [crit |-> "tr", surrogate |-> IF surrogate = None THEN None ELSE surrogate - 1]

\* lines 215-216, 253, 267: criterion_tr(..., surrogate_model=surrogate_model)
CriterionTr(surrogate) == [crit |-> "tr", surrogate |-> surrogate]

\* lines 152-156, standard branch taken
StdEpochBegin ==
    /\ pc = "loop"
    /\ LoopContinues(epoch, args.ep)
    /\ IsStandardEpoch(input_batch_size_surrogate_training)
    /\ running_loss' = <<>>
    /\ batch_i' = 0
    /\ pc' = "std_batch"
    /\ UNCHANGED <<args, epoch, input_batch_size_surrogate_training,
                   input_data_surrogate_training, APLs, training_loss,
                   loss_surrogate_training, surrogate_model, surrogate_model_trained,
                   loss_with_train_data, loss_with_test_data, opt_steps, kinds,
                   trainer_calls>>

\* lines 157-174: one mini-batch step of a standard epoch
StdBatchStep ==
    /\ pc = "std_batch"
    /\ batch_i < NumBatches(TrainSize, args.batch)
    /\ running_loss' = Append(running_loss,
                              SelectCriterion(surrogate_model_trained, surrogate_model))
    /\ opt_steps' = opt_steps + 1
    /\ batch_i' = batch_i + 1
    /\ UNCHANGED <<args, pc, epoch, input_batch_size_surrogate_training,
                   input_data_surrogate_training, APLs, training_loss,
                   loss_surrogate_training, surrogate_model, surrogate_model_trained,
                   loss_with_train_data, loss_with_test_data, kinds, trainer_calls>>

\* the decrement of line 187 left out
CountdownStuck(countdown) == countdown

\* line 187
CountdownAfterStd(countdown) == countdown - 1

\* the buffer rebound to the newest snapshot instead of growing
SnapshotOverwrites(buffer, snapshot) == <<snapshot>>

\* lines 177-178 and 179-182: the observation of the finished epoch
AppendSnapshot(buffer, snapshot) == Append(buffer, snapshot)
\* the measured APL not stored
APLNotAppended(buffer, apl) == buffer

AppendAPL(buffer, apl) == Append(buffer, apl)

\* lines 176-187: end of a standard epoch
StdEpochEnd ==
    /\ pc = "std_batch"
    /\ batch_i >= NumBatches(TrainSize, args.batch)
    /\ input_data_surrogate_training' =
           AppendSnapshot(input_data_surrogate_training,
                          [epoch |-> epoch, params |-> opt_steps])
    /\ APLs' = AppendAPL(APLs, [epoch |-> epoch, params |-> opt_steps])
    /\ training_loss' = Append(training_loss, [epoch |-> epoch, n |-> Len(running_loss)])
    /\ input_batch_size_surrogate_training' =
           CountdownAfterStd(input_batch_size_surrogate_training)
    /\ kinds' = Append(kinds, "std")
    /\ epoch' = epoch + 1
    /\ pc' = "loop"
    /\ UNCHANGED <<args, loss_surrogate_training, surrogate_model,
                   surrogate_model_trained, running_loss, batch_i,
                   loss_with_train_data, loss_with_test_data, opt_steps, trainer_calls>>

\* line 190: torch.vstack raises on an empty list
VstackOk(buffer) == Len(buffer) > 0

\* line 203: the `retrain` argument of the trainer call
RetrainArg(rt) == TRUE

\* the flag toggled instead of set
FlagToggled(trained) == ~trained

\* line 204
FlagAfterRetrain(trained) == TRUE

\* lines 188-190 with an empty buffer: the run ends with vstack's exception
RetrainVstackFail ==
    /\ pc = "loop"
    /\ LoopContinues(epoch, args.ep)
    /\ ~IsStandardEpoch(input_batch_size_surrogate_training)
    /\ ~VstackOk(input_data_surrogate_training)
    /\ running_loss' = <<>>
    /\ pc' = "error"
    /\ UNCHANGED <<args, epoch, input_batch_size_surrogate_training,
                   input_data_surrogate_training, APLs, training_loss,
                   loss_surrogate_training, surrogate_model, surrogate_model_trained,
                   batch_i, loss_with_train_data, loss_with_test_data, opt_steps,
                   kinds, trainer_calls>>

\* lines 188-206: the surrogate is trained on the buffers
RetrainBegin ==
    /\ pc = "loop"
    /\ LoopContinues(epoch, args.ep)
    /\ ~IsStandardEpoch(input_batch_size_surrogate_training)
    /\ VstackOk(input_data_surrogate_training)
    /\ running_loss' = <<>>
    /\ trainer_calls' = Append(trainer_calls,
                               [X |-> input_data_surrogate_training,
                                y |-> APLs,
                                retrain |-> RetrainArg(args.rt),
                                epoch |-> epoch])
    /\ surrogate_model' = Len(trainer_calls) + 1
    /\ surrogate_model_trained' = FlagAfterRetrain(surrogate_model_trained)
    /\ loss_surrogate_training' = Append(loss_surrogate_training, Len(trainer_calls) + 1)
    /\ batch_i' = 0
    /\ pc' = "rt_batch"
    /\ UNCHANGED <<args, epoch, input_batch_size_surrogate_training,
                   input_data_surrogate_training, APLs, training_loss,
                   loss_with_train_data, loss_with_test_data, opt_steps, kinds>>

\* lines 208-220: one mini-batch step of the pass that follows the retrain
RetrainBatchStep ==
    /\ pc = "rt_batch"
    /\ batch_i < NumBatches(TrainSize, args.batch)
    /\ running_loss' = Append(running_loss, CriterionTr(surrogate_model))
    /\ opt_steps' = opt_steps + 1
    /\ batch_i' = batch_i + 1
    /\ UNCHANGED <<args, pc, epoch, input_batch_size_surrogate_training,
                   input_data_surrogate_training, APLs, training_loss,
                   loss_surrogate_training, surrogate_model, surrogate_model_trained,
                   loss_with_train_data, loss_with_test_data, kinds, trainer_calls>>

\* the buffers not reset after the retrain
BufferKept(buffer) == buffer

\* lines 222-223
ClearedBuffer(buffer) == <<>>

\* the countdown reset one short
CountdownResetShort(sb) == sb - 1

\* line 228
CountdownAfterRetrain(sb) == sb

\* lines 222-228: end of a retrain epoch
RetrainEnd ==
    /\ pc = "rt_batch"
    /\ batch_i >= NumBatches(TrainSize, args.batch)
    /\ input_data_surrogate_training' = ClearedBuffer(input_data_surrogate_training)
    /\ APLs' = ClearedBuffer(APLs)
    /\ training_loss' = Append(training_loss, [epoch |-> epoch, n |-> Len(running_loss)])
    /\ input_batch_size_surrogate_training' = CountdownAfterRetrain(args.sb)
    /\ kinds' = Append(kinds, "retrain")
    /\ epoch' = epoch + 1
    /\ pc' = "loop"
    /\ UNCHANGED <<args, loss_surrogate_training, surrogate_model,
                   surrogate_model_trained, running_loss, batch_i,
                   loss_with_train_data, loss_with_test_data, opt_steps, trainer_calls>>

\* lines 230-231: training_loss[i] for i in range(num_epochs)
LoggingOk(num_epochs, losses) == num_epochs <= Len(losses)

\* lines 230-239: the loop is over; the losses are logged, evaluation begins
LoopExit ==
    /\ pc = "loop"
    /\ ~LoopContinues(epoch, args.ep)
    /\ pc' = IF LoggingOk(args.ep, training_loss) THEN "eval_train" ELSE "error"
    /\ batch_i' = 0
    /\ UNCHANGED <<args, epoch, input_batch_size_surrogate_training,
                   input_data_surrogate_training, APLs, training_loss,
                   loss_surrogate_training, surrogate_model, surrogate_model_trained,
                   running_loss, loss_with_train_data, loss_with_test_data,
                   opt_steps, kinds, trainer_calls>>

\* lines 246-255: evaluation of one mini-batch of the training data.
\* tr.Tree_Regularizer is outside src/: what it does with surrogate_model=None
\* (raise, or return a loss) is left open.
EvalTrainStep ==
    /\ pc = "eval_train"
    /\ batch_i < NumBatches(TrainSize, args.batch)
    /\ loss_with_train_data' = Append(loss_with_train_data, CriterionTr(surrogate_model))
    /\ batch_i' = batch_i + 1
    /\ \/ pc' = pc
       \/ surrogate_model = None /\ pc' = "error"
    /\ UNCHANGED <<args, epoch, input_batch_size_surrogate_training,
                   input_data_surrogate_training, APLs, training_loss,
                   loss_surrogate_training, surrogate_model, surrogate_model_trained,
                   running_loss, loss_with_test_data, opt_steps, kinds, trainer_calls>>

\* line 257
EvalTrainEnd ==
    /\ pc = "eval_train"
    /\ batch_i >= NumBatches(TrainSize, args.batch)
    /\ batch_i' = 0
    /\ pc' = "eval_test"
    /\ UNCHANGED <<args, epoch, input_batch_size_surrogate_training,
                   input_data_surrogate_training, APLs, training_loss,
                   loss_surrogate_training, surrogate_model, surrogate_model_trained,
                   running_loss, loss_with_train_data, loss_with_test_data,
                   opt_steps, kinds, trainer_calls>>

\* lines 260-269: evaluation of one mini-batch of the test data
EvalTestStep ==
    /\ pc = "eval_test"
    /\ batch_i < NumBatches(TestSize, args.batch)
    /\ loss_with_test_data' = Append(loss_with_test_data, CriterionTr(surrogate_model))
    /\ batch_i' = batch_i + 1
    /\ \/ pc' = pc
       \/ surrogate_model = None /\ pc' = "error"
    /\ UNCHANGED <<args, epoch, input_batch_size_surrogate_training,
                   input_data_surrogate_training, APLs, training_loss,
                   loss_surrogate_training, surrogate_model, surrogate_model_trained,
                   running_loss, loss_with_train_data, opt_steps, kinds, trainer_calls>>

\* lines 271-387
EvalTestEnd ==
    /\ pc = "eval_test"
    /\ batch_i >= NumBatches(TestSize, args.batch)
    /\ pc' = "done"
    /\ UNCHANGED <<args, epoch, input_batch_size_surrogate_training,
                   input_data_surrogate_training, APLs, training_loss,
                   loss_surrogate_training, surrogate_model, surrogate_model_trained,
                   running_loss, batch_i, loss_with_train_data, loss_with_test_data,
                   opt_steps, kinds, trainer_calls>>

AugIdle ==
    /\ aug_pc = "idle"
    /\ aug_fn = "none"
    /\ model = <<>>
    /\ model_before = <<>>
    /\ parameters = <<>>
    /\ num_new_samples = 0
    /\ parameters_ = <<>>
    /\ model_copy = <<>>
    /\ aug_i = 0
    /\ parameters_new = <<>>
    /\ APLs_new = <<>>

Init == MainInit /\ AugIdle

Next ==
    \/ Setup /\ UNCHANGED augvars
    \/ StdEpochBegin /\ UNCHANGED augvars
    \/ StdBatchStep /\ UNCHANGED augvars
    \/ StdEpochEnd /\ UNCHANGED augvars
    \/ RetrainVstackFail /\ UNCHANGED augvars
    \/ RetrainBegin /\ UNCHANGED augvars
    \/ RetrainBatchStep /\ UNCHANGED augvars
    \/ RetrainEnd /\ UNCHANGED augvars
    \/ LoopExit /\ UNCHANGED augvars
    \/ EvalTrainStep /\ UNCHANGED augvars
    \/ EvalTrainEnd /\ UNCHANGED augvars
    \/ EvalTestStep /\ UNCHANGED augvars
    \/ EvalTestEnd /\ UNCHANGED augvars

Spec == Init /\ [][Next]_vars

\* ----------------------------------------------- augmentation (src/utils.py)
\* A parameter vector is a sequence of fixed-point numbers, all multiples of
\* Denominator, so that a convex combination with weights w/Denominator is exact.

\* the i-th buffered snapshot of a model with d parameters
Snapshot(i, d) == [j \in 1 .. d |-> Denominator * (i + j)]
ZeroVector(d) == [j \in 1 .. d |-> 0]

RECURSIVE SumTo(_, _)
SumTo(f, n) == IF n = 0 THEN 0 ELSE f[n] + SumTo(f, n - 1)

\* line 270-271: rows of np.random.dirichlet([1]*k, m): weights >= 0 summing to 1
Weights(k) == {w \in [1 .. k -> 0 .. Denominator] : SumTo(w, k) = Denominator}

\* line 274: samples @ parameters, an (m x k) by (k x d) product
MatMul(samples, params) ==
    [r \in 1 .. Len(samples) |->
        [c \in 1 .. Len(params[1]) |->
            SumTo([i \in 1 .. Len(params) |-> samples[r][i] * params[i][c]],
                  Len(params)) \div Denominator]]

\* the loop run over the existing vectors instead of the mixtures
RowsOfParameters(samples, params) == params

\* lines 274, 279: the rows the loop iterates over
SyntheticRows(samples, params) == MatMul(samples, params)

\* model.vector_to_parameters(param): the vector is written into the model
VectorToParameters(m, vec) == vec

\* model.compute_APL(X_train): a deterministic, non-negative function of the
\* model's parameters (here: how many of them are non-zero)
ComputeAPL(m) == Cardinality({j \in 1 .. Len(m) : m[j] # 0})

\* line 321
DeepCopy(m) == m

Abs(x) == IF x < 0 THEN -x ELSE x

\* line 328: a draw of normal(p, 0.1*|p|): the deviation scales with |p|
Perturbed(m, noise) == [j \in 1 .. Len(m) |-> m[j] + noise[j] * (Abs(m[j]) \div Denominator)]

AugInit ==
    /\ aug_pc = "call"
    /\ aug_fn \in {"dirichlet", "gaussian"}
    /\ num_new_samples \in 0 .. MaxNew
    /\ \E d \in 1 .. MaxDim, k \in 1 .. MaxK :
          /\ parameters = IF aug_fn = "dirichlet"
                          THEN [i \in 1 .. k |-> Snapshot(i, d)] ELSE <<>>
          /\ model \in {Snapshot(k, d), ZeroVector(d)}
    /\ model_before = model
    /\ parameters_ = <<>>
    /\ model_copy = <<>>
    /\ aug_i = 0
    /\ parameters_new = <<>>
    /\ APLs_new = <<>>

\* lines 267-277 of augment_data_with_dirichlet
DirichletBegin ==
    /\ aug_pc = "call" /\ aug_fn = "dirichlet"
    /\ \E samples \in [1 .. num_new_samples -> Weights(Len(parameters))] :
          parameters_' = SyntheticRows(samples, parameters)
    /\ aug_i' = 0
    /\ aug_pc' = "loop"
    /\ UNCHANGED <<aug_fn, model, model_before, parameters, num_new_samples,
                   model_copy, parameters_new, APLs_new>>

\* lines 279-284: one iteration of `for param in parameters_`
DirichletStep ==
    /\ aug_pc = "loop" /\ aug_fn = "dirichlet"
    /\ aug_i < Len(parameters_)
    /\ model' = VectorToParameters(model, parameters_[aug_i + 1])
    /\ parameters_new' = Append(parameters_new, parameters_[aug_i + 1])
    /\ APLs_new' = Append(APLs_new, ComputeAPL(model'))
    /\ aug_i' = aug_i + 1
    /\ UNCHANGED <<aug_pc, aug_fn, model_before, parameters, num_new_samples,
                   parameters_, model_copy>>

\* lines 286-290
DirichletReturn ==
    /\ aug_pc = "loop" /\ aug_fn = "dirichlet"
    /\ aug_i >= Len(parameters_)
    /\ parameters_' = <<>>
    /\ aug_pc' = "returned"
    /\ UNCHANGED <<aug_fn, model, model_before, parameters, num_new_samples,
                   model_copy, aug_i, parameters_new, APLs_new>>

\* lines 316-317 of augment_data_with_gaussian
GaussianBegin ==
    /\ aug_pc = "call" /\ aug_fn = "gaussian"
    /\ aug_i' = 0
    /\ aug_pc' = "loop"
    /\ UNCHANGED <<aug_fn, model, model_before, parameters, num_new_samples,
                   parameters_, model_copy, parameters_new, APLs_new>>

\* lines 321-329: the copy is made and every parameter of it perturbed
GaussianCopy ==
    /\ aug_pc = "loop" /\ aug_fn = "gaussian"
    /\ aug_i < num_new_samples
    /\ model_copy = <<>>
    /\ \E noise \in [1 .. Len(model) -> {-1, 0, 1}] :
          model_copy' = Perturbed(DeepCopy(model), noise)
    /\ UNCHANGED <<aug_pc, aug_fn, model, model_before, parameters, num_new_samples,
                   parameters_, aug_i, parameters_new, APLs_new>>

\* lines 331-334: the copy's observation is recorded and the copy dropped
GaussianRecord ==
    /\ aug_pc = "loop" /\ aug_fn = "gaussian"
    /\ model_copy # <<>>
    /\ parameters_new' = Append(parameters_new, model_copy)
    /\ APLs_new' = Append(APLs_new, ComputeAPL(model_copy))
    /\ model_copy' = <<>>
    /\ aug_i' = aug_i + 1
    /\ UNCHANGED <<aug_pc, aug_fn, model, model_before, parameters, num_new_samples,
                   parameters_>>

\* line 336
GaussianReturn ==
    /\ aug_pc = "loop" /\ aug_fn = "gaussian"
    /\ aug_i >= num_new_samples
    /\ model_copy = <<>>
    /\ aug_pc' = "returned"
    /\ UNCHANGED <<aug_fn, model, model_before, parameters, num_new_samples,
                   parameters_, model_copy, aug_i, parameters_new, APLs_new>>

InitAug == MainIdle /\ AugInit

NextAug ==
    \/ DirichletBegin /\ UNCHANGED mainvars
    \/ DirichletStep /\ UNCHANGED mainvars
    \/ DirichletReturn /\ UNCHANGED mainvars
    \/ GaussianBegin /\ UNCHANGED mainvars
    \/ GaussianCopy /\ UNCHANGED mainvars
    \/ GaussianRecord /\ UNCHANGED mainvars
    \/ GaussianReturn /\ UNCHANGED mainvars

SpecAug == InitAug /\ [][NextAug]_vars

\* ------------------------------------------------------------ properties

RECURSIVE TrailingStd(_)
\* number of epochs completed since the last retrain epoch (or since the start)
TrailingStd(ks) ==
    IF ks = <<>> \/ ks[Len(ks)] = "retrain" THEN 0
    ELSE 1 + TrailingStd(SubSeq(ks, 1, Len(ks) - 1))

AtEpochBoundary == pc = "loop"

\* C1 (as stated): at every epoch boundary, for interval N >= 1, both buffers
\* hold (epochs completed since the last retrain epoch) mod N observations,
\* and fewer than N.
C1_BufferModInterval ==
    (AtEpochBoundary /\ args.sb >= 1) =>
        /\ Len(input_data_surrogate_training) = TrailingStd(kinds) % args.sb
        /\ Len(APLs) = TrailingStd(kinds) % args.sb
        /\ Len(input_data_surrogate_training) < args.sb

\* C1 (amended): at every epoch boundary, for interval N >= 1, both buffers
\* hold exactly as many observations as epochs were completed since the last
\* retrain epoch (no reduction mod N), and at most N.
C1_BufferCountsEpochs ==
    (AtEpochBoundary /\ args.sb >= 1) =>
        /\ Len(input_data_surrogate_training) = TrailingStd(kinds)
        /\ Len(APLs) = TrailingStd(kinds)
        /\ Len(input_data_surrogate_training) <= args.sb

\* the buffer is full again in a cycle that follows a retrain
C1_Witness ==
    /\ AtEpochBoundary
    /\ args.sb >= 2
    /\ trainer_calls # <<>>
    /\ Len(input_data_surrogate_training) = args.sb

LoopFinished == pc = "loop" /\ ~LoopContinues(epoch, args.ep)

\* C2 (as stated): interval 5 and 12 epochs give exactly two retrains, after
\* 5 and after 10 completed epochs, and 2 buffered observations at the end.
C2_ScenarioAsStated ==
    (LoopFinished /\ args.sb = 5 /\ args.ep = 12) =>
        /\ Len(trainer_calls) = 2
        /\ trainer_calls[1].epoch = 5
        /\ trainer_calls[2].epoch = 10
        /\ Len(input_data_surrogate_training) = 2
        /\ Len(APLs) = 2

\* C2 (amended): interval 5 and 12 epochs give exactly two retrains, in
\* epoch 6 (after 5 completed epochs) and in epoch 12 (after 11 completed
\* epochs), and both buffers are empty after epoch 12.
C2_ScenarioOfCode ==
    (LoopFinished /\ args.sb = 5 /\ args.ep = 12) =>
        /\ Len(trainer_calls) = 2
        /\ trainer_calls[1].epoch = 5
        /\ trainer_calls[2].epoch = 11
        /\ kinds[6] = "retrain" /\ kinds[12] = "retrain"
        /\ input_data_surrogate_training = <<>>
        /\ APLs = <<>>

C2_Witness == LoopFinished /\ args.sb = 5 /\ args.ep = 12 /\ Len(kinds) = 12

AbsentSurrogateCall(call) == call.crit = "tr" /\ call.surrogate = None
AnyIn(calls, P(_)) == \E j \in 1 .. Len(calls) : P(calls[j])

\* C3: criterion_tr is never invoked while the surrogate is absent, neither
\* in a training epoch nor in the evaluation over the train and test loaders.
C3_NoTreeLossWithoutSurrogate ==
    /\ ~AnyIn(running_loss, AbsentSurrogateCall)
    /\ ~AnyIn(loss_with_train_data, AbsentSurrogateCall)
    /\ ~AnyIn(loss_with_test_data, AbsentSurrogateCall)

InStandardEpoch ==
    \/ pc = "std_batch"
    \/ pc = "loop" /\ kinds # <<>> /\ kinds[Len(kinds)] = "std"

\* C4: every mini-batch step of a standard epoch uses plain MSE while the
\* flag is false and criterion_tr with the current (existing) surrogate once
\* it is true; one epoch never mixes the two.
C4_LossSelection ==
    InStandardEpoch =>
        /\ \A j \in 1 .. Len(running_loss) :
              running_loss[j] =
                  IF surrogate_model_trained
                  THEN [crit |-> "tr", surrogate |-> surrogate_model]
                  ELSE [crit |-> "mse", surrogate |-> None]
        /\ surrogate_model_trained =>
              surrogate_model # None /\ surrogate_model = Len(trainer_calls)

\* a guided standard epoch with several steps taken
C4_Witness ==
    /\ pc = "std_batch"
    /\ surrogate_model_trained
    /\ Len(running_loss) >= 2

\* C5: the flag starts false, becomes true exactly at the first retrain and
\* never becomes false again.
C5_FlagMonotonic ==
    /\ ~surrogate_model_trained
    /\ [](surrogate_model_trained <=> trainer_calls # <<>>)
    /\ [][/\ surrogate_model_trained => surrogate_model_trained'
          /\ (surrogate_model_trained' # surrogate_model_trained) =>
                 (trainer_calls = <<>> /\ Len(trainer_calls') = 1)]_vars

\* the flag is still true after a second retrain
C5_Witness == surrogate_model_trained /\ Len(trainer_calls) >= 2

BadConfig == args.ep <= 0 \/ args.batch <= 0 \/ args.sb < 2

\* C8: a non-positive epoch count or batch size, or an interval below 2,
\* ends the run before the first epoch: no optimizer step, no observation,
\* no surrogate training, no evaluation.
C8_BadConfigFailsFast ==
    BadConfig =>
        /\ pc \in {"setup", "loop", "error"}
        /\ pc = "loop" => epoch = 0
        /\ opt_steps = 0
        /\ input_data_surrogate_training = <<>> /\ APLs = <<>>
        /\ trainer_calls = <<>>

\* C9: every trainer call receives the configured retrain flag args.rt.
C9_RetrainFlagPassed ==
    \A j \in 1 .. Len(trainer_calls) : trainer_calls[j].retrain = args.rt

\* C10: for interval N >= 1 the epoch with 0-based index e is a retrain epoch
\* iff e mod (N+1) = N, and after E epochs floor(E / (N+1)) retrains happened.
C10_MacroCycle ==
    args.sb >= 1 =>
        /\ \A e \in 1 .. Len(kinds) :
              (kinds[e] = "retrain") <=> ((e - 1) % (args.sb + 1) = args.sb)
        /\ AtEpochBoundary =>
              /\ Len(kinds) = epoch
              /\ Len(trainer_calls) = epoch \div (args.sb + 1)

\* two full macro-cycles have run
C10_Witness == AtEpochBoundary /\ args.sb >= 2 /\ Len(trainer_calls) >= 2

\* C6: after either augmentation routine returns, the parameters of the
\* model object the caller passed are what they were before the call.
C6_CallerModelUntouched ==
    aug_pc = "returned" => model = model_before

\* C7: augment_data_with_dirichlet with k >= 1 vectors of length d and
\* num_new_samples = m returns m vectors and m APLs, paired index by index,
\* every vector of length d.
C7_DirichletShape ==
    (aug_fn = "dirichlet" /\ aug_pc = "returned") =>
        /\ Len(parameters_new) = num_new_samples
        /\ Len(APLs_new) = num_new_samples
        /\ \A j \in 1 .. Len(parameters_new) :
              /\ Len(parameters_new[j]) = Len(parameters[1])
              /\ j <= Len(APLs_new) /\ APLs_new[j] = ComputeAPL(parameters_new[j])

\* three existing vectors, several synthetic ones, a proper mixture among them
C7_Witness ==
    /\ aug_fn = "dirichlet" /\ aug_pc = "returned"
    /\ Len(parameters) = 3
    /\ num_new_samples >= 2
    /\ Len(parameters_new) = num_new_samples
    /\ \E j \in 1 .. Len(parameters_new) :
          \A i \in 1 .. Len(parameters) : parameters_new[j] # parameters[i]

AfterRetrainEpoch == pc = "loop" /\ kinds # <<>> /\ kinds[Len(kinds)] = "retrain"

\* C11: for interval N >= 1 neither buffer ever holds more than N
\* observations, in any state of the training loop (mid-epoch included), and
\* right after every retrain epoch both buffers are empty.
C11_BufferBounded ==
    args.sb >= 1 =>
        /\ Len(input_data_surrogate_training) <= args.sb
        /\ Len(APLs) <= args.sb
        /\ AfterRetrainEpoch =>
              input_data_surrogate_training = <<>> /\ APLs = <<>>

\* a second retrain epoch has just ended, after the buffer had filled again
C11_Witness ==
    /\ AfterRetrainEpoch
    /\ args.sb >= 2
    /\ Len(trainer_calls) >= 2
    /\ Len(trainer_calls[2].X) = args.sb

\* the observation a standard epoch with 0-based index e appends: the
\* parameters after all optimizer steps of the epochs 0..e
ObservationOf(e) ==
    [epoch |-> e, params |-> (e + 1) * NumBatches(TrainSize, args.batch)]

\* C12: for interval N >= 1 every trainer call receives exactly N parameter
\* vectors and N APLs, and they are the observations of the N standard epochs
\* since the previous retrain epoch, in order; so no observation reaches two
\* calls and none is dropped.
C12_TrainerGetsCycleObservations ==
    args.sb >= 1 =>
        \A c \in 1 .. Len(trainer_calls) :
            LET call == trainer_calls[c] IN
            /\ call.epoch = c * (args.sb + 1) - 1
            /\ Len(call.X) = args.sb
            /\ Len(call.y) = args.sb
            /\ \A n \in 1 .. args.sb :
                  /\ n <= Len(call.X) /\ call.X[n] = ObservationOf(call.epoch - args.sb + n - 1)
                  /\ n <= Len(call.y) /\ call.y[n] = call.X[n]

\* the second trainer call was made, on several observations
C12_Witness ==
    /\ args.sb >= 2
    /\ Len(trainer_calls) >= 2
    /\ trainer_calls[2].X # trainer_calls[1].X

InRetrainPass == pc = "rt_batch"

AllWithSurrogate(calls, s) ==
    \A j \in 1 .. Len(calls) : calls[j] = [crit |-> "tr", surrogate |-> s]

\* C13: in a retrain epoch the surrogate is trained on the buffered
\* observations and the reference and flag are updated before the mini-batch
\* pass; the pass is one full pass with criterion_tr and the surrogate this
\* retrain returned; only after it are the buffers cleared and the countdown
\* reset to the interval; no observation is appended in a retrain epoch.
C13_RetrainEpochOrder ==
    /\ [](InRetrainPass =>
            /\ trainer_calls # <<>>
            /\ trainer_calls[Len(trainer_calls)].X = input_data_surrogate_training
            /\ trainer_calls[Len(trainer_calls)].y = APLs
            /\ trainer_calls[Len(trainer_calls)].epoch = epoch
            /\ input_data_surrogate_training # <<>>
            /\ surrogate_model = Len(trainer_calls)
            /\ surrogate_model_trained
            /\ AllWithSurrogate(running_loss, Len(trainer_calls))
            /\ input_batch_size_surrogate_training = 0)
    /\ [](AfterRetrainEpoch =>
            /\ Len(running_loss) = NumBatches(TrainSize, args.batch)
            /\ AllWithSurrogate(running_loss, Len(trainer_calls))
            /\ trainer_calls[Len(trainer_calls)].epoch = epoch - 1
            /\ input_data_surrogate_training = <<>> /\ APLs = <<>>
            /\ input_batch_size_surrogate_training = args.sb)
    /\ [][/\ (pc = "loop" /\ pc' = "rt_batch") =>
                 /\ Len(trainer_calls') = Len(trainer_calls) + 1
                 /\ UNCHANGED <<input_data_surrogate_training, APLs>>
          /\ (InRetrainPass /\ pc' = "rt_batch") =>
                 UNCHANGED <<input_data_surrogate_training, APLs, trainer_calls,
                             surrogate_model, input_batch_size_surrogate_training>>
          /\ (InRetrainPass /\ pc' # "rt_batch") =>
                 /\ pc' = "loop"
                 /\ input_data_surrogate_training' = <<>> /\ APLs' = <<>>
                 /\ UNCHANGED <<trainer_calls, surrogate_model>>]_vars

\* the pass of a second retrain epoch is under way, with several steps taken
C13_Witness ==
    /\ InRetrainPass
    /\ Len(trainer_calls) >= 2
    /\ Len(running_loss) >= 2
    /\ Len(input_data_surrogate_training) >= 2

\* C14: for interval N >= 1, at every epoch boundary the countdown is in
\* 0..N, both buffers have the same length, and that length is N minus the
\* countdown; a standard epoch lowers the countdown by exactly 1 and a
\* retrain epoch sets it back to N.
C14_CountdownAndBuffers ==
    /\ []((AtEpochBoundary /\ args.sb >= 1) =>
            /\ input_batch_size_surrogate_training \in 0 .. args.sb
            /\ Len(input_data_surrogate_training) = Len(APLs)
            /\ Len(APLs) = args.sb - input_batch_size_surrogate_training)
    /\ [][/\ (pc = "std_batch" /\ pc' = "loop") =>
                 input_batch_size_surrogate_training' =
                     input_batch_size_surrogate_training - 1
          /\ (pc = "rt_batch" /\ pc' = "loop") =>
                 input_batch_size_surrogate_training' = args.sb
          /\ (pc' # "loop" \/ pc = "loop") =>
                 UNCHANGED input_batch_size_surrogate_training]_vars

\* the countdown is part-way down in a cycle that follows a retrain
C14_Witness ==
    /\ AtEpochBoundary
    /\ args.sb >= 3
    /\ trainer_calls # <<>>
    /\ input_batch_size_surrogate_training \in 1 .. args.sb - 1
    /\ Len(APLs) = args.sb - input_batch_size_surrogate_training

RECURSIVE CountRetrain(_)
CountRetrain(ks) ==
    IF ks = <<>> THEN 0
    ELSE (IF ks[Len(ks)] = "retrain" THEN 1 ELSE 0)
         + CountRetrain(SubSeq(ks, 1, Len(ks) - 1))

AfterLoop == LoopFinished \/ pc \in {"eval_train", "eval_test", "done"}

\* C15: for epoch count E >= 0 and interval N >= 1, once the loop has ended
\* training_loss holds exactly E entries, one per epoch of either kind, and
\* loss_surrogate_training one entry per retrain epoch, so the logging loops
\* stay in range; a retrain epoch uses up one of the E epochs, its pass is
\* not an additional one.
C15_LossSeriesLengths ==
    (args.ep >= 0 /\ args.sb >= 1) =>
        /\ AfterLoop =>
              /\ Len(training_loss) = args.ep
              /\ \A n \in 1 .. Len(training_loss) : training_loss[n].epoch = n - 1
              /\ Len(kinds) = args.ep
              /\ Len(loss_surrogate_training) = CountRetrain(kinds)
              /\ Len(loss_surrogate_training) = Len(trainer_calls)
              /\ LoggingOk(args.ep, training_loss)
              /\ opt_steps = args.ep * NumBatches(TrainSize, args.batch)
        /\ (pc = "error" /\ DataLoaderOk(args.batch)) =>
              loss_with_train_data # <<>> \/ loss_with_test_data # <<>>

\* the loop has ended after a run that contained retrain epochs
C15_Witness ==
    /\ pc = "eval_train"
    /\ args.ep >= 6
    /\ args.sb >= 2
    /\ Len(loss_surrogate_training) >= 2
    /\ Len(training_loss) = args.ep

====
